---- MODULE Spec2Model ----
(***************************************************************************)
(* A model of the FSSPOS point-of-sale screen (src/src/components/POS.tsx) *)
(* and of its barcode scanner component (src/unnamed/part_000).            *)
(*                                                                         *)
(* Strings whose content matters (product names, search terms, barcodes)   *)
(* are sequences of one-character strings, so that toLowerCase, includes   *)
(* and === are computed rather than assumed.  Category labels are compared *)
(* only with ===, and are TLA+ strings.                                    *)
(***************************************************************************)
EXTENDS Integers, Sequences, FiniteSets, TLC

VARIABLES
    \* POS.tsx state
    products,            \* useState<Product[]>([])                 POS.tsx:14
    loaded,              \* the mount effect of POS.tsx:23-33 has run
    searchTerm,          \* useState('')                            POS.tsx:15
    selectedCategory,    \* useState<string>('all')                 POS.tsx:16
    showCheckout,        \* useState(false)                         POS.tsx:17
    showBarcodeScanner,  \* useState(false), the scanner's isOpen   POS.tsx:19
    \* CartContext state (useCart, POS.tsx:20)
    items,               \* the cart lines, in insertion order
    lastCall,            \* history: the last call made on the cart
    addCalls,            \* history: per product id, the addItem calls made
                         \* since its line was last absent (0: not counted)
    \* BarcodeScanner state (part_000)
    mounted,             \* the POS screen, and the scanner in it, is mounted
    scannerMode,         \* useState<'camera' | 'input'>('camera') part_000:18
    manualBarcode,       \* useState('')                           part_000:19
    isScanning,          \* useState(false)                        part_000:20
    error,               \* useState('')                           part_000:21
    cameras,             \* useState<any[]>([]): the device count  part_000:22
    selectedCamera,      \* useState(''): a device id, 0 for ''    part_000:23
    html5QrCodeRef,      \* useRef(null): a session id, 0 for null part_000:25
    lastScan,            \* history: the text the task just run passed to
                         \* onScan, <<>> when it passed none
    effIsScanning,       \* isScanning as the cleanup closure returned by
                         \* the effect last run sees it           part_000:32-34
    sess,                \* per initializeScanner call, how far it and the
                         \* capture session it creates have come
    \* history the properties read; no action reads it
    checkoutSignal,      \* what the checkout modal called in the step just
                         \* taken: "complete", "close", or "none"
    submitted,           \* the step just taken was handleManualSubmit
    onScans              \* per capture session, the onScan calls its decoded
                         \* frames have made: 0, 1, or 2 for more than one

posVars == <<products, loaded, searchTerm, selectedCategory, showCheckout,
             showBarcodeScanner>>
cartVars == <<items, lastCall, addCalls>>
scanVars == <<mounted, scannerMode, manualBarcode, isScanning, error, cameras,
              selectedCamera, html5QrCodeRef, effIsScanning, sess, lastScan>>
histVars == <<checkoutSignal, submitted, onScans>>
vars == <<posVars, cartVars, scanVars, histVars>>

----------------------------------------------------------------------------
(* Bounds of the model *)

MaxCatalog == 3      \* longest product list loaded from storage
MaxTerm == 2         \* longest search term typed
MaxQty == 3          \* largest quantity a cart line is driven to
MaxInits == 2        \* initializeScanner calls in one run
MaxCams == 2         \* most capture devices enumerated
MaxManual == 2       \* longest text typed into the manual input

----------------------------------------------------------------------------
(* Strings *)

Chars == {"a", "A", "b", "B"}

Str(n) == UNION {[1..k -> Chars] : k \in 0..n}

\* one character of String.prototype.toLowerCase
LowerChar(c) == CASE c = "A" -> "a" [] c = "B" -> "b" [] OTHER -> c

\* String.prototype.toLowerCase
toLowerCase(s) == [i \in 1..Len(s) |-> LowerChar(s[i])]

\* String.prototype.includes: t occurs in s as a contiguous run
includes(s, t) ==
    \E k \in 0..(Len(s) - Len(t)) : SubSeq(s, k + 1, k + Len(t)) = t

----------------------------------------------------------------------------
(* Products (the Product type imported at POS.tsx:4; the fields POS.tsx   *)
(* reads are id, name, category, stock and the optional barcode)          *)

NoBarcode == <<"undefined">>   \* an absent barcode: equal to no decoded text

Product(i, n, c, b, s) ==
    [id |-> i, name |-> n, category |-> c, barcode |-> b, stock |-> s]

Prod1 == Product(1, <<"A", "b">>, "drinks", <<"a">>, 1)
Prod2 == Product(2, <<"a">>, "food", <<"A">>, 0)
Prod3 == Product(3, <<"b", "a">>, "Food", NoBarcode, 2)
Prod4 == Product(4, <<"B">>, "all", <<"b">>, 1)
Prod5 == Product(5, <<"b">>, "food", <<"B">>, 2)

ProductPool == {Prod1, Prod2, Prod3, Prod4, Prod5}

ProductIds == {p.id : p \in ProductPool}

\* what LocalStorage.load<Product>('pos_products') can return: product lists
\* with unique ids
Catalogs ==
    {c \in UNION {[1..k -> ProductPool] : k \in 0..MaxCatalog} :
        \A i, j \in 1..Len(c) : i # j => c[i].id # c[j].id}

----------------------------------------------------------------------------
(* Catalog derivations of POS.tsx *)

\* Array.from(new Set(xs)): the first occurrence of each element, in order
RECURSIVE Distinct(_)
Distinct(xs) ==
    IF xs = <<>> THEN <<>>
    ELSE LET front == Distinct(SubSeq(xs, 1, Len(xs) - 1))
             last == xs[Len(xs)]
         IN  IF \E i \in 1..Len(front) : front[i] = last
             THEN front
             ELSE Append(front, last)

\* POS.tsx:35
categoriesOf(ps) ==
    <<"all">> \o Distinct([i \in 1..Len(ps) |-> ps[i].category])

categories == categoriesOf(products)

\* POS.tsx:38
matchesSearch_CaseSensitive(product, term) == includes(product.name, term)

matchesSearch(product, term) ==
    includes(toLowerCase(product.name), toLowerCase(term))

\* POS.tsx:39
matchesCategory_NoSentinel(product, category) == product.category = category

matchesCategory(product, category) ==
    category = "all" \/ product.category = category

\* Array.prototype.filter with the predicate of POS.tsx:37-41
RECURSIVE filterProducts(_, _, _)
filterProducts(ps, term, category) ==
    IF ps = <<>> THEN <<>>
    ELSE LET rest == filterProducts(Tail(ps), term, category)
         IN  IF matchesSearch(Head(ps), term) /\ matchesCategory(Head(ps), category)
             THEN <<Head(ps)>> \o rest
             ELSE rest

\* POS.tsx:37-41
filteredProducts == filterProducts(products, searchTerm, selectedCategory)

\* Array.prototype.find with the predicate of POS.tsx:50; <<>> when nothing
\* matches, else <<the first match>>
RECURSIVE findByBarcode_IgnoreCase(_, _)
findByBarcode_IgnoreCase(ps, barcode) ==
    IF ps = <<>> THEN <<>>
    ELSE IF toLowerCase(Head(ps).barcode) = toLowerCase(barcode) THEN <<Head(ps)>>
    ELSE findByBarcode_IgnoreCase(Tail(ps), barcode)

RECURSIVE findByBarcode(_, _)
findByBarcode(ps, barcode) ==
    IF ps = <<>> THEN <<>>
    ELSE IF Head(ps).barcode = barcode THEN <<Head(ps)>>
    ELSE findByBarcode(Tail(ps), barcode)

----------------------------------------------------------------------------
(* The cart (CartContext, reached through useCart at POS.tsx:20; its code  *)
(* is not part of the sources, the operations follow the specification)    *)

Line(p, q) == [product |-> p, quantity |-> q]

HasLine(cart, id) == \E i \in 1..Len(cart) : cart[i].product.id = id

RECURSIVE dropLines(_, _)
dropLines(cart, id) ==
    IF cart = <<>> THEN <<>>
    ELSE IF Head(cart).product.id = id THEN dropLines(Tail(cart), id)
    ELSE <<Head(cart)>> \o dropLines(Tail(cart), id)

addItem_StockCapped(cart, product) ==
    IF HasLine(cart, product.id)
    THEN [i \in 1..Len(cart) |->
            IF cart[i].product.id = product.id /\ cart[i].quantity < product.stock
            THEN Line(cart[i].product, cart[i].quantity + 1)
            ELSE cart[i]]
    ELSE Append(cart, Line(product, 1))

addItem(cart, product) ==
    IF HasLine(cart, product.id)
    THEN [i \in 1..Len(cart) |->
            IF cart[i].product.id = product.id
            THEN Line(cart[i].product, cart[i].quantity + 1)
            ELSE cart[i]]
    ELSE Append(cart, Line(product, 1))

removeItem(cart, id) == dropLines(cart, id)

updateQuantity_KeepsZero(cart, id, q) ==
    IF q < 0 THEN removeItem(cart, id)
    ELSE [i \in 1..Len(cart) |->
            IF cart[i].product.id = id
            THEN Line(cart[i].product, q)
            ELSE cart[i]]

updateQuantity_Adds(cart, id, q) ==
    IF q <= 0 THEN removeItem(cart, id)
    ELSE [i \in 1..Len(cart) |->
            IF cart[i].product.id = id
            THEN Line(cart[i].product, cart[i].quantity + q)
            ELSE cart[i]]

updateQuantity(cart, id, q) ==
    IF q <= 0 THEN removeItem(cart, id)
    ELSE [i \in 1..Len(cart) |->
            IF cart[i].product.id = id
            THEN Line(cart[i].product, q)
            ELSE cart[i]]

clearCart(cart) == <<>>

----------------------------------------------------------------------------
(* Calls on the cart, with the history the properties read *)

NoCall == [op |-> "none", id |-> 0, q |-> 0]

CartIds == ProductIds \cup {0}      \* 0: the id of no product

NoAddCalls == [id \in CartIds |-> 0]

\* addItem(product)
CallAddItem(product) ==
    /\ items' = addItem(items, product)
    /\ lastCall' = [op |-> "addItem", id |-> product.id, q |-> 0]
    /\ addCalls' = [addCalls EXCEPT ![product.id] =
                      IF ~HasLine(items, product.id) THEN 1
                      ELSE IF @ > 0 THEN @ + 1 ELSE 0]

\* updateQuantity(id, q)
CallUpdateQuantity(id, q) ==
    /\ items' = updateQuantity(items, id, q)
    /\ lastCall' = [op |-> "updateQuantity", id |-> id, q |-> q]
    /\ addCalls' = [addCalls EXCEPT ![id] = 0]

\* removeItem(id)
CallRemoveItem(id) ==
    /\ items' = removeItem(items, id)
    /\ lastCall' = [op |-> "removeItem", id |-> id, q |-> 0]
    /\ addCalls' = [addCalls EXCEPT ![id] = 0]

\* clearCart()
CallClearCart ==
    /\ items' = clearCart(items)
    /\ lastCall' = [op |-> "clearCart", id |-> 0, q |-> 0]
    /\ addCalls' = NoAddCalls

QuantityOf(cart, id) ==
    IF HasLine(cart, id)
    THEN (CHOOSE l \in {cart[i] : i \in 1..Len(cart)} : l.product.id = id).quantity
    ELSE 0

----------------------------------------------------------------------------
(* The catalog: loading, searching and the category filter (POS.tsx)       *)

InitPOS ==
    /\ products = <<>>
    /\ loaded = FALSE
    /\ searchTerm = <<>>
    /\ selectedCategory = "all"
    /\ showCheckout = FALSE
    /\ showBarcodeScanner = FALSE

InitCartEmpty ==
    /\ items = <<>>
    /\ lastCall = NoCall
    /\ addCalls = NoAddCalls

\* POS.tsx:23-33, the mount effect: LocalStorage.load returns a product list
LoadProducts ==
    /\ ~loaded
    /\ \E data \in Catalogs : products' = data
    /\ loaded' = TRUE
    /\ UNCHANGED <<searchTerm, selectedCategory, showCheckout, showBarcodeScanner>>

\* POS.tsx:28-30: LocalStorage.load throws, the list stays empty
LoadProductsFails ==
    /\ ~loaded
    /\ loaded' = TRUE
    /\ UNCHANGED <<products, searchTerm, selectedCategory, showCheckout,
                   showBarcodeScanner>>

\* POS.tsx:108, the search box
SetSearchTerm(t) ==
    /\ searchTerm' = t
    /\ UNCHANGED <<products, loaded, selectedCategory, showCheckout,
                   showBarcodeScanner>>

\* POS.tsx:112-122, the category select: its options are the categories
SetSelectedCategory(i) ==
    /\ i \in 1..Len(categories)
    /\ selectedCategory' = categories[i]
    /\ UNCHANGED <<products, loaded, searchTerm, showCheckout, showBarcodeScanner>>

----------------------------------------------------------------------------
(* The cart controls of POS.tsx *)

\* POS.tsx:127-132, a click on the i-th product card shown
ClickProduct_Twice(i) ==
    /\ i \in 1..Len(filteredProducts)
    /\ QuantityOf(items, filteredProducts[i].id) < MaxQty
    /\ items' = addItem(addItem(items, filteredProducts[i]), filteredProducts[i])
    /\ lastCall' = [op |-> "addItem", id |-> filteredProducts[i].id, q |-> 0]
    /\ addCalls' = [addCalls EXCEPT ![filteredProducts[i].id] =
                      IF ~HasLine(items, filteredProducts[i].id) THEN 1
                      ELSE IF @ > 0 THEN @ + 1 ELSE 0]

ClickProduct(i) ==
    /\ i \in 1..Len(filteredProducts)
    /\ QuantityOf(items, filteredProducts[i].id) < MaxQty
    /\ CallAddItem(filteredProducts[i])

\* POS.tsx:178-183, the minus button of the i-th cart line
ClickMinus(i) ==
    /\ i \in 1..Len(items)
    /\ CallUpdateQuantity(items[i].product.id, items[i].quantity - 1)

\* POS.tsx:185-190, the plus button of the i-th cart line
ClickPlus(i) ==
    /\ i \in 1..Len(items)
    /\ items[i].quantity < MaxQty
    /\ CallUpdateQuantity(items[i].product.id, items[i].quantity + 1)

\* POS.tsx:191-196, the trash button of the i-th cart line
ClickTrash(i) ==
    /\ i \in 1..Len(items)
    /\ CallRemoveItem(items[i].product.id)

\* POS.tsx:207-212, the Checkout button (shown when the cart is not empty)
OpenCheckout ==
    /\ items # <<>>
    /\ showCheckout' = TRUE
    /\ UNCHANGED <<products, loaded, searchTerm, selectedCategory, showBarcodeScanner>>
    /\ UNCHANGED cartVars

\* POS.tsx:222, onClose of the checkout modal
CloseCheckout ==
    /\ showCheckout
    /\ showCheckout' = FALSE
    /\ UNCHANGED <<products, loaded, searchTerm, selectedCategory, showBarcodeScanner>>
    /\ UNCHANGED cartVars

\* the completion handler, were it to close the modal only
handleCheckoutComplete_NoClear ==
    /\ showCheckout
    /\ showCheckout' = FALSE
    /\ UNCHANGED cartVars
    /\ UNCHANGED <<products, loaded, searchTerm, selectedCategory, showBarcodeScanner>>

\* POS.tsx:43-46
handleCheckoutComplete ==
    /\ showCheckout
    /\ showCheckout' = FALSE
    /\ CallClearCart
    /\ UNCHANGED <<products, loaded, searchTerm, selectedCategory, showBarcodeScanner>>

----------------------------------------------------------------------------
(* The barcode scanner (part_000).                                         *)
(*                                                                         *)
(* Each action is one task of the UI thread: an event handler or the       *)
(* continuation of an await, together with the render it causes and the    *)
(* effect of part_000:27-35 when that render changes a dependency.         *)
(*                                                                         *)
(* The capture device boundary (html5-qrcode) is the environment:          *)
(* getCameras resolves with some device list or rejects; the constructor   *)
(* throws when the element "barcode-scanner" is not in the document;       *)
(* start resolves or rejects; stop throws unless the session is scanning,  *)
(* and otherwise resolves later; a scanning session delivers decoded texts.*)
(***************************************************************************)

SessIds == 1..MaxInits

Unused == [n \in SessIds |-> "unused"]

FirstUnused(ss) == CHOOSE n \in SessIds :
    ss[n] = "unused" /\ \A m \in SessIds : ss[m] = "unused" => n <= m

ManualChars == {" ", "a"}

ManualTexts == UNION {[1..k -> ManualChars] : k \in 0..MaxManual}

ScanTexts == {<<"a">>, <<"A">>}

NoScan == <<>>

ScanCatalogs == {<<>>, <<Prod1, Prod3>>}

\* String.prototype.trim
RECURSIVE trim(_)
trim(s) ==
    IF s = <<>> THEN <<>>
    ELSE IF Head(s) = " " THEN trim(Tail(s))
    ELSE IF s[Len(s)] = " " THEN trim(SubSeq(s, 1, Len(s) - 1))
    ELSE s

\* the <div id="barcode-scanner"> of part_000:199-205 is in the document
ElementPresent == mounted /\ showBarcodeScanner /\ scannerMode = "camera"

\* part_000:86-101, up to the await of line 89 when stop() is reached and
\* does not throw, to the end otherwise: what it leaves of isScanning, of
\* the ref and of the sessions
cleanup_StopsWhateverRefHolds(closureIsScanning, scanning, ref, ss) ==
    IF ref # 0 /\ ss[ref] \in {"running", "stopping"}
    THEN [scanning |-> scanning, ref |-> ref, ss |-> [ss EXCEPT ![ref] = "stopping"]]
    ELSE [scanning |-> FALSE, ref |-> 0, ss |-> ss]

cleanup(closureIsScanning, scanning, ref, ss) ==
    IF ref # 0 /\ closureIsScanning /\ ss[ref] \in {"running", "stopping"}
    THEN [scanning |-> scanning, ref |-> ref, ss |-> [ss EXCEPT ![ref] = "stopping"]]
    ELSE [scanning |-> FALSE, ref |-> 0, ss |-> ss]

\* The render after a task and, when isOpen, scannerMode or selectedCamera
\* changed, the effect of part_000:27-35: the cleanup returned by the effect
\* last run (with the isScanning of its own render), then initializeScanner
\* up to its first await (part_000:37-42).  The arguments are the state the
\* task leaves.
Render(open, mode, cam, scanning, err, ref, ss) ==
    LET depsChanged ==
            <<open, mode, cam>> # <<showBarcodeScanner, scannerMode, selectedCamera>>
        c == cleanup(effIsScanning, scanning, ref, ss)
    IN  IF ~mounted
        THEN \* the setters of an unmounted component do nothing
             /\ html5QrCodeRef' = ref
             /\ sess' = ss
             /\ UNCHANGED <<showBarcodeScanner, scannerMode, selectedCamera,
                            isScanning, error, effIsScanning>>
        ELSE /\ showBarcodeScanner' = open
             /\ scannerMode' = mode
             /\ selectedCamera' = cam
             /\ IF ~depsChanged
                THEN /\ isScanning' = scanning
                     /\ error' = err
                     /\ html5QrCodeRef' = ref
                     /\ sess' = ss
                     /\ UNCHANGED effIsScanning
                ELSE /\ effIsScanning' = scanning
                     /\ isScanning' = c.scanning
                     /\ html5QrCodeRef' = c.ref
                     /\ IF open /\ mode = "camera"
                        THEN /\ \E n \in SessIds : c.ss[n] = "unused"
                             /\ sess' = [c.ss EXCEPT ![FirstUnused(c.ss)] = "enum"]
                             /\ error' = ""
                        ELSE /\ sess' = c.ss
                             /\ error' = err

\* part_000:79-83, the catch of initializeScanner
InitFailure_KeepsMode(n) ==
    /\ Render(showBarcodeScanner, scannerMode, selectedCamera, isScanning,
              "Failed to initialize camera", html5QrCodeRef,
              [sess EXCEPT ![n] = "ended"])
    /\ UNCHANGED <<mounted, manualBarcode>>

InitFailure(n) ==
    /\ Render(showBarcodeScanner, "input", selectedCamera, isScanning,
              "Failed to initialize camera", html5QrCodeRef,
              [sess EXCEPT ![n] = "ended"])
    /\ UNCHANGED <<mounted, manualBarcode>>

\* part_000:42-49: getCameras resolves with no device
EnumerateNone(n) ==
    /\ lastScan' = NoScan
    /\ sess[n] = "enum"
    /\ cameras' = IF mounted THEN 0 ELSE cameras
    /\ Render(showBarcodeScanner, "input", selectedCamera, isScanning,
              "No cameras found", html5QrCodeRef, [sess EXCEPT ![n] = "ended"])
    /\ UNCHANGED <<mounted, manualBarcode>>
    /\ UNCHANGED <<products, loaded, searchTerm, selectedCategory, showCheckout>>
    /\ UNCHANGED cartVars

\* part_000:42-76: getCameras resolves with k devices, the session is
\* created and start() is called
EnumerateSome(n, k) ==
    /\ lastScan' = NoScan
    /\ sess[n] = "enum"
    /\ k \in 1..MaxCams
    /\ ElementPresent
    /\ cameras' = IF mounted THEN k ELSE cameras
    /\ Render(showBarcodeScanner, scannerMode, selectedCamera, isScanning,
              error, n, [sess EXCEPT ![n] = "starting"])
    /\ UNCHANGED <<mounted, manualBarcode>>
    /\ UNCHANGED <<products, loaded, searchTerm, selectedCategory, showCheckout>>
    /\ UNCHANGED cartVars

\* part_000:42-55, 79-83: getCameras resolves with k devices and the
\* constructor throws, the element being absent
EnumerateNoElement(n, k) ==
    /\ lastScan' = NoScan
    /\ sess[n] = "enum"
    /\ k \in 1..MaxCams
    /\ ~ElementPresent
    /\ cameras' = IF mounted THEN k ELSE cameras
    /\ InitFailure(n)
    /\ UNCHANGED <<products, loaded, searchTerm, selectedCategory, showCheckout>>
    /\ UNCHANGED cartVars

\* part_000:42, 79-83: getCameras rejects
EnumerateRejects(n) ==
    /\ lastScan' = NoScan
    /\ sess[n] = "enum"
    /\ InitFailure(n)
    /\ UNCHANGED cameras
    /\ UNCHANGED <<products, loaded, searchTerm, selectedCategory, showCheckout>>
    /\ UNCHANGED cartVars

\* part_000:64-78: start() resolves
StartResolves(n) ==
    /\ lastScan' = NoScan
    /\ sess[n] = "starting"
    /\ Render(showBarcodeScanner, scannerMode, selectedCamera, TRUE, error,
              html5QrCodeRef, [sess EXCEPT ![n] = "running"])
    /\ UNCHANGED <<mounted, manualBarcode, cameras>>
    /\ UNCHANGED <<products, loaded, searchTerm, selectedCategory, showCheckout>>
    /\ UNCHANGED cartVars

\* part_000:64, 79-83: start() rejects
StartRejects(n) ==
    /\ lastScan' = NoScan
    /\ sess[n] = "starting"
    /\ InitFailure(n)
    /\ UNCHANGED cameras
    /\ UNCHANGED <<products, loaded, searchTerm, selectedCategory, showCheckout>>
    /\ UNCHANGED cartVars

\* part_000:89-100: stop() resolves and cleanup runs on from its await
StopResolves(n) ==
    /\ lastScan' = NoScan
    /\ sess[n] = "stopping"
    /\ Render(showBarcodeScanner, scannerMode, selectedCamera, FALSE, error,
              0, [sess EXCEPT ![n] = "ended"])
    /\ UNCHANGED <<mounted, manualBarcode, cameras>>
    /\ UNCHANGED <<products, loaded, searchTerm, selectedCategory, showCheckout>>
    /\ UNCHANGED cartVars

\* POS.tsx:48-73, the cart's part of it (both branches also close the
\* scanner, lines 53 and 71)
handleBarcodeScanned(barcode) ==
    LET found == findByBarcode(products, barcode)
    IN  IF found # <<>>
        THEN /\ QuantityOf(items, found[1].id) < MaxQty
             /\ CallAddItem(found[1])
        ELSE UNCHANGED cartVars

\* part_000:103-106 with the callbacks POS.tsx:234-239 passes: onScan is
\* handleBarcodeScanned, onClose sets showBarcodeScanner to false
handleScanSuccess(barcode) ==
    /\ lastScan' = barcode
    /\ handleBarcodeScanned(barcode)
    /\ Render(FALSE, scannerMode, selectedCamera, isScanning, error,
              html5QrCodeRef, sess)

\* part_000:67-69: a scanning session decodes a frame; the callback runs
\* whether or not the component is still mounted
Decode(n, text) ==
    /\ sess[n] = "running"
    /\ handleScanSuccess(text)
    /\ UNCHANGED <<mounted, manualBarcode, cameras>>
    /\ UNCHANGED <<products, loaded, searchTerm, selectedCategory, showCheckout>>

\* POS.tsx:84, the Scan button
OpenScanner ==
    /\ lastScan' = NoScan
    /\ mounted
    /\ ~showBarcodeScanner
    /\ Render(TRUE, scannerMode, selectedCamera, isScanning, error,
              html5QrCodeRef, sess)
    /\ UNCHANGED <<mounted, manualBarcode, cameras>>
    /\ UNCHANGED <<products, loaded, searchTerm, selectedCategory, showCheckout>>
    /\ UNCHANGED cartVars

\* part_000:145 and 156, the Camera and Manual buttons
SetScannerMode(mode) ==
    /\ lastScan' = NoScan
    /\ mounted
    /\ showBarcodeScanner
    /\ Render(showBarcodeScanner, mode, selectedCamera, isScanning, error,
              html5QrCodeRef, sess)
    /\ UNCHANGED <<mounted, manualBarcode, cameras>>
    /\ UNCHANGED <<products, loaded, searchTerm, selectedCategory, showCheckout>>
    /\ UNCHANGED cartVars

\* part_000:169-186, the camera select
SetSelectedCamera(cam) ==
    /\ lastScan' = NoScan
    /\ mounted
    /\ showBarcodeScanner
    /\ scannerMode = "camera"
    /\ cameras > 1
    /\ cam \in 1..cameras
    \* onChange fires for another option than the one the select shows
    /\ cam # (IF selectedCamera \in 1..cameras THEN selectedCamera ELSE 1)
    /\ Render(showBarcodeScanner, scannerMode, cam, isScanning, error,
              html5QrCodeRef, sess)
    /\ UNCHANGED <<mounted, manualBarcode, cameras>>
    /\ UNCHANGED <<products, loaded, searchTerm, selectedCategory, showCheckout>>
    /\ UNCHANGED cartVars

\* part_000:224-231, typing into the manual input
SetManualBarcode(text) ==
    /\ lastScan' = NoScan
    /\ mounted
    /\ showBarcodeScanner
    /\ scannerMode = "input"
    /\ manualBarcode' = text
    /\ UNCHANGED <<mounted, scannerMode, isScanning, error, cameras,
                   selectedCamera, html5QrCodeRef, effIsScanning, sess>>
    /\ UNCHANGED posVars
    /\ UNCHANGED cartVars

\* the submit handler, were it to pass the text as typed
handleManualSubmit_NoTrim ==
    /\ mounted
    /\ showBarcodeScanner
    /\ scannerMode = "input"
    /\ IF trim(manualBarcode) # <<>>
       THEN /\ handleScanSuccess(manualBarcode)
            /\ manualBarcode' = <<>>
            /\ UNCHANGED <<mounted, cameras>>
            /\ UNCHANGED <<products, loaded, searchTerm, selectedCategory,
                           showCheckout>>
       ELSE /\ lastScan' = NoScan
            /\ UNCHANGED <<posVars, cartVars, mounted, scannerMode, manualBarcode,
                           isScanning, error, cameras, selectedCamera,
                           html5QrCodeRef, effIsScanning, sess>>

\* part_000:108-114
handleManualSubmit ==
    /\ mounted
    /\ showBarcodeScanner
    /\ scannerMode = "input"
    /\ IF trim(manualBarcode) # <<>>
       THEN /\ handleScanSuccess(trim(manualBarcode))
            /\ manualBarcode' = <<>>
            /\ UNCHANGED <<mounted, cameras>>
            /\ UNCHANGED <<products, loaded, searchTerm, selectedCategory,
                           showCheckout>>
       ELSE /\ lastScan' = NoScan
            /\ UNCHANGED <<posVars, cartVars, mounted, scannerMode, manualBarcode,
                           isScanning, error, cameras, selectedCamera,
                           html5QrCodeRef, effIsScanning, sess>>

\* part_000:116-121, the X button: cleanup() of the current render runs to
\* its await or to its end, then the state is reset and onClose is called
handleClose ==
    /\ lastScan' = NoScan
    /\ mounted
    /\ showBarcodeScanner
    /\ LET c == cleanup(isScanning, isScanning, html5QrCodeRef, sess)
       IN  Render(FALSE, scannerMode, selectedCamera, c.scanning, "", c.ref, c.ss)
    /\ manualBarcode' = <<>>
    /\ UNCHANGED <<mounted, cameras>>
    /\ UNCHANGED <<products, loaded, searchTerm, selectedCategory, showCheckout>>
    /\ UNCHANGED cartVars

\* part_000:32-34: the screen is left, React runs the cleanup of the effect
\* last run; the state of the unmounted components is gone (it is put back
\* to its initial values)
Unmount ==
    /\ lastScan' = NoScan
    /\ mounted
    /\ mounted' = FALSE
    /\ LET c == cleanup(effIsScanning, isScanning, html5QrCodeRef, sess)
       IN  /\ html5QrCodeRef' = c.ref
           /\ sess' = c.ss
    /\ scannerMode' = "camera"
    /\ manualBarcode' = <<>>
    /\ isScanning' = FALSE
    /\ error' = ""
    /\ cameras' = 0
    /\ selectedCamera' = 0
    /\ effIsScanning' = FALSE
    /\ showBarcodeScanner' = FALSE
    /\ UNCHANGED <<products, loaded, searchTerm, selectedCategory, showCheckout>>
    /\ UNCHANGED cartVars

----------------------------------------------------------------------------
(* Specifications *)

InitScanner ==
    /\ mounted = TRUE
    /\ scannerMode = "camera"
    /\ manualBarcode = <<>>
    /\ isScanning = FALSE
    /\ error = ""
    /\ cameras = 0
    /\ selectedCamera = 0
    /\ html5QrCodeRef = 0
    /\ effIsScanning = FALSE
    /\ sess = Unused
    /\ lastScan = NoScan
    /\ checkoutSignal = "none"
    /\ submitted = FALSE
    /\ onScans = [n \in SessIds |-> 0]

\* The scanner in the POS screen, the products loaded
Init ==
    /\ products \in ScanCatalogs
    /\ loaded = TRUE
    /\ searchTerm = <<>>
    /\ selectedCategory = "all"
    /\ showCheckout = FALSE
    /\ showBarcodeScanner = FALSE
    /\ InitCartEmpty
    /\ InitScanner

\* the step is the manual form's onSubmit (part_000:216), or it is not
Submits ==
    /\ submitted' = TRUE
    /\ UNCHANGED <<checkoutSignal, onScans>>

NoSubmit ==
    /\ submitted' = FALSE
    /\ UNCHANGED <<checkoutSignal, onScans>>

Next ==
    \/ OpenScanner /\ NoSubmit
    \/ \E mode \in {"camera", "input"} : SetScannerMode(mode) /\ NoSubmit
    \/ \E cam \in 1..MaxCams : SetSelectedCamera(cam) /\ NoSubmit
    \/ \E text \in ManualTexts : SetManualBarcode(text) /\ NoSubmit
    \/ handleManualSubmit /\ Submits
    \/ handleClose /\ NoSubmit
    \/ Unmount /\ NoSubmit
    \/ \E n \in SessIds : EnumerateNone(n) /\ NoSubmit
    \/ \E n \in SessIds, k \in 1..MaxCams : EnumerateSome(n, k) /\ NoSubmit
    \/ \E n \in SessIds, k \in 1..MaxCams : EnumerateNoElement(n, k) /\ NoSubmit
    \/ \E n \in SessIds : EnumerateRejects(n) /\ NoSubmit
    \/ \E n \in SessIds : StartResolves(n) /\ NoSubmit
    \/ \E n \in SessIds : StartRejects(n) /\ NoSubmit
    \/ \E n \in SessIds : StopResolves(n) /\ NoSubmit
    \/ \E n \in SessIds, text \in ScanTexts : Decode(n, text) /\ NoSubmit

Spec == Init /\ [][Next]_vars

\* the same events, with the onScan calls of each capture session counted
\* part_000:67-69: the frame callback of session n calls handleScanSuccess,
\* which calls onScan once
CountsOnScan(n) ==
    /\ onScans' = [onScans EXCEPT ![n] = IF @ < 2 THEN @ + 1 ELSE 2]
    /\ submitted' = FALSE
    /\ UNCHANGED checkoutSignal

NextScans ==
    \/ OpenScanner /\ NoSubmit
    \/ \E mode \in {"camera", "input"} : SetScannerMode(mode) /\ NoSubmit
    \/ \E cam \in 1..MaxCams : SetSelectedCamera(cam) /\ NoSubmit
    \/ \E text \in ManualTexts : SetManualBarcode(text) /\ NoSubmit
    \/ handleManualSubmit /\ Submits
    \/ handleClose /\ NoSubmit
    \/ Unmount /\ NoSubmit
    \/ \E n \in SessIds : EnumerateNone(n) /\ NoSubmit
    \/ \E n \in SessIds, k \in 1..MaxCams : EnumerateSome(n, k) /\ NoSubmit
    \/ \E n \in SessIds, k \in 1..MaxCams : EnumerateNoElement(n, k) /\ NoSubmit
    \/ \E n \in SessIds : EnumerateRejects(n) /\ NoSubmit
    \/ \E n \in SessIds : StartResolves(n) /\ NoSubmit
    \/ \E n \in SessIds : StartRejects(n) /\ NoSubmit
    \/ \E n \in SessIds : StopResolves(n) /\ NoSubmit
    \/ \E n \in SessIds, text \in ScanTexts : Decode(n, text) /\ CountsOnScan(n)

SpecScans == Init /\ [][NextScans]_vars


\* The catalog of the POS screen from its mount on
InitCatalog == InitPOS /\ InitCartEmpty /\ InitScanner

NextCatalog ==
    \/ LoadProducts /\ UNCHANGED <<cartVars, scanVars, histVars>>
    \/ LoadProductsFails /\ UNCHANGED <<cartVars, scanVars, histVars>>
    \/ \E t \in Str(MaxTerm) : SetSearchTerm(t) /\ UNCHANGED <<cartVars, scanVars, histVars>>
    \/ \E i \in 1..(MaxCatalog + 1) :
          SetSelectedCategory(i) /\ UNCHANGED <<cartVars, scanVars, histVars>>

SpecCatalog == InitCatalog /\ [][NextCatalog]_vars

\* The cart of the POS screen, the products loaded
CartCatalogs == {<<Prod1, Prod2, Prod3>>, <<Prod2, Prod4>>}

InitCart ==
    /\ products \in CartCatalogs
    /\ loaded = TRUE
    /\ searchTerm = <<>>
    /\ selectedCategory = "all"
    /\ showCheckout = FALSE
    /\ showBarcodeScanner = FALSE
    /\ InitCartEmpty
    /\ InitScanner

UnchangedButCart ==
    /\ UNCHANGED <<products, loaded, searchTerm, selectedCategory, showCheckout,
                   showBarcodeScanner, scanVars, submitted, onScans>>
    /\ checkoutSignal' = "none"

CheckoutSignals(signal) ==
    /\ checkoutSignal' = signal
    /\ UNCHANGED <<scanVars, submitted, onScans>>

NextCart ==
    \/ \E i \in 1..MaxCatalog : ClickProduct(i) /\ UnchangedButCart
    \/ \E i \in 1..MaxCatalog : ClickMinus(i) /\ UnchangedButCart
    \/ \E i \in 1..MaxCatalog : ClickPlus(i) /\ UnchangedButCart
    \/ \E i \in 1..MaxCatalog : ClickTrash(i) /\ UnchangedButCart
    \/ \E id \in CartIds, q \in -1..MaxQty :
          CallUpdateQuantity(id, q) /\ UnchangedButCart
    \/ \E id \in CartIds : CallRemoveItem(id) /\ UnchangedButCart
    \/ OpenCheckout /\ CheckoutSignals("none")
    \/ CloseCheckout /\ CheckoutSignals("close")
    \/ handleCheckoutComplete /\ CheckoutSignals("complete")

SpecCart == InitCart /\ [][NextCart]_vars

----------------------------------------------------------------------------
(* Properties of the scanner, checked under Spec *)

Running == {n \in SessIds : sess[n] = "running"}

\* no initializeScanner call and no cleanup is waiting on the device
Quiescent == \A n \in SessIds : sess[n] \notin {"enum", "starting", "stopping"}

\* C1: every exit from camera scanning releases the capture session: in no
\* quiescent state is the scanner closed, in manual mode or unmounted while a
\* capture session that was started is still running.
C1_ReleasedOnEveryExit ==
    (Quiescent /\ (~mounted \/ ~showBarcodeScanner \/ scannerMode = "input"))
        => Running = {}

\* C2: at most one capture session is running in every reachable state.
C2_AtMostOneSession == Cardinality(Running) <= 1

\* a step in which an initializeScanner call ends without a running session:
\* no device (part_000:45-49) or a throw (part_000:79-83)
InitFails(n) == sess[n] \in {"enum", "starting"} /\ sess'[n] = "ended"

\* C3: when camera initialization fails (no device, or enumeration or start
\* throws) the mode becomes 'input', the error message is one of the two
\* non-empty messages, isScanning stays false, and the scanner stays open.
C3_FailureFallsBackToManual ==
    [][\A n \in SessIds :
          (mounted /\ InitFails(n)) =>
              /\ scannerMode' = "input"
              /\ error' \in {"No cameras found", "Failed to initialize camera"}
              /\ (~isScanning => ~isScanning')
              /\ (showBarcodeScanner => showBarcodeScanner')]_vars

C3_Witness ==
    /\ mounted
    /\ showBarcodeScanner
    /\ scannerMode = "input"
    /\ error = "Failed to initialize camera"
    /\ ~isScanning
    /\ \E n \in SessIds : sess[n] = "ended"

\* the catalog positions whose barcode is exactly the text
BarcodeHits(text) == {i \in 1..Len(products) : products[i].barcode = text}

\* C4: a decoded barcode that equals some product's barcode exactly adds one
\* unit of that product to the cart and nothing else; one that equals none
\* leaves the cart as it was; the scanner is closed in both cases.
C4_ScanResolution ==
    [][lastScan' # NoScan =>
          /\ BarcodeHits(lastScan') # {} =>
                \E i \in BarcodeHits(lastScan') :
                    \A id \in CartIds :
                        QuantityOf(items', id) =
                            QuantityOf(items, id)
                                + (IF id = products[i].id THEN 1 ELSE 0)
          /\ BarcodeHits(lastScan') = {} => items' = items
          /\ ~showBarcodeScanner']_vars

C4_Witness ==
    /\ lastScan = <<"a">>
    /\ BarcodeHits(lastScan) # {}
    /\ QuantityOf(items, 1) = 2
    /\ ~showBarcodeScanner

Spaces(n) == [i \in 1..n |-> " "]

\* t is s without the spaces at its two ends
TrimmedOf(t, s) ==
    /\ t # <<>>
    /\ t[1] # " "
    /\ t[Len(t)] # " "
    /\ \E before, after \in 0..Len(s) : s = Spaces(before) \o t \o Spaces(after)

Blank(s) == \A i \in 1..Len(s) : s[i] = " "

\* C12: a manual submit of a text that is empty or all spaces calls neither
\* onScan nor onClose and changes nothing; a submit of any other text calls
\* onScan once with the text without the spaces at its ends (one unit added
\* when it is a product's barcode, nothing added otherwise), closes the
\* scanner and empties the input field.
C12_ManualSubmit ==
    [][submitted' =>
          IF Blank(manualBarcode)
          THEN /\ lastScan' = NoScan
               /\ UNCHANGED <<posVars, cartVars, mounted, scannerMode,
                              manualBarcode, isScanning, error, cameras,
                              selectedCamera, html5QrCodeRef, sess>>
          ELSE /\ TrimmedOf(lastScan', manualBarcode)
               /\ IF BarcodeHits(lastScan') # {}
                  THEN /\ lastCall'.op = "addItem"
                       /\ \E i \in BarcodeHits(lastScan') :
                            \A id \in CartIds :
                                QuantityOf(items', id) =
                                    QuantityOf(items, id)
                                        + (IF id = products[i].id THEN 1 ELSE 0)
                  ELSE UNCHANGED cartVars
               /\ ~showBarcodeScanner'
               /\ manualBarcode' = <<>>]_vars

C12_Witness ==
    /\ submitted
    /\ lastScan = <<"a">>
    /\ lastCall.op = "addItem"
    /\ QuantityOf(items, 1) = 1
    /\ manualBarcode = <<>>
    /\ ~showBarcodeScanner

\* C13: the frames decoded by one capture session call onScan at most once:
\* after the first decode has called onScan and closed the scanner, no later
\* frame of that session calls onScan again.
C13_OnScanAtMostOnce == \A n \in SessIds : onScans[n] <= 1

----------------------------------------------------------------------------
(* Properties of the cart, checked under SpecCart *)

LinesOf(cart, id) == {i \in 1..Len(cart) : cart[i].product.id = id}

\* C5: after n >= 1 addItem calls on one product, begun when the cart had no
\* line for it, the cart has exactly one line for it, of quantity n, whatever
\* the product's stock.
C5_AddItemCounts ==
    \A id \in ProductIds :
        addCalls[id] >= 1 =>
            /\ Cardinality(LinesOf(items, id)) = 1
            /\ QuantityOf(items, id) = addCalls[id]

C5_Witness ==
    \E i \in 1..Len(items) :
        /\ addCalls[items[i].product.id] = MaxQty
        /\ items[i].quantity = MaxQty
        /\ items[i].quantity > items[i].product.stock
        /\ Len(items) >= 2

\* C6: the cart holds at most one line per product id and every line has a
\* quantity of at least 1.
C6_CartValid ==
    /\ \A i, j \in 1..Len(items) :
          i # j => items[i].product.id # items[j].product.id
    /\ \A i \in 1..Len(items) : items[i].quantity >= 1

C6_Witness ==
    /\ lastCall.op = "updateQuantity"
    /\ lastCall.q <= 0
    /\ lastCall.id \in ProductIds
    /\ ~HasLine(items, lastCall.id)
    /\ Len(items) >= 2

\* C7: updateQuantity(id, q) sets the quantity of the line of id to exactly q
\* when q > 0, leaving the other lines and the order alone; removes that line
\* alone when q <= 0; leaves the cart as it was when id has no line.
C7_UpdateQuantity ==
    [][lastCall'.op = "updateQuantity" =>
          LET id == lastCall'.id
              q == lastCall'.q
          IN  IF ~HasLine(items, id) THEN items' = items
              ELSE IF q > 0
              THEN /\ Len(items') = Len(items)
                   /\ \A i \in 1..Len(items) :
                         /\ items'[i].product = items[i].product
                         /\ items'[i].quantity =
                               IF items[i].product.id = id THEN q
                               ELSE items[i].quantity
              ELSE /\ ~HasLine(items', id)
                   /\ Len(items') = Len(items) - 1
                   /\ \A i \in 1..Len(items') :
                         items'[i] =
                            items[IF i < CHOOSE k \in LinesOf(items, id) : TRUE
                                  THEN i ELSE i + 1]]_vars

C7_Witness ==
    /\ lastCall.op = "updateQuantity"
    /\ lastCall.q = MaxQty
    /\ Len(items) >= 2
    /\ QuantityOf(items, lastCall.id) = MaxQty
    /\ \E i \in 1..Len(items) : items[i].quantity = 1

\* C11: when the checkout modal signals completion the cart is left with no
\* line and the modal is closed; when it is closed without completion the
\* cart lines are left as they were.
C11_CheckoutClearsCart ==
    [][/\ checkoutSignal' = "complete" => (items' = <<>> /\ ~showCheckout')
       /\ checkoutSignal' = "close" => (items' = items /\ ~showCheckout')]_vars

C11_Witness ==
    /\ checkoutSignal = "complete"
    /\ lastCall.op = "clearCart"
    /\ items = <<>>
    /\ ~showCheckout

----------------------------------------------------------------------------
(* Properties of the catalog, checked under SpecCatalog *)

\* the name holds the term somewhere, letter case apart
NameHas(name, term) ==
    \E k \in 0..Len(name) :
        /\ k + Len(term) <= Len(name)
        /\ \A j \in 1..Len(term) : LowerChar(name[k + j]) = LowerChar(term[j])

\* the catalog positions the search term and the category select
Selected ==
    {i \in 1..Len(products) :
        /\ NameHas(products[i].name, searchTerm)
        /\ (selectedCategory = "all" \/ products[i].category = selectedCategory)}

\* the j-th smallest member of a set of positions
Nth(S, j) == CHOOSE i \in S : Cardinality({m \in S : m <= i}) = j

\* C8: the filtered list is exactly the products, in catalog order, whose name
\* contains the search term case-insensitively and whose category is the
\* selected one (any category for "all"); searching and selecting change
\* neither the catalog nor the cart.
C8_FilterIsSubsequence ==
    /\ [](/\ Len(filteredProducts) = Cardinality(Selected)
          /\ \A j \in 1..Len(filteredProducts) :
                filteredProducts[j] = products[Nth(Selected, j)])
    /\ [][(searchTerm' # searchTerm \/ selectedCategory' # selectedCategory)
              => UNCHANGED <<products, items>>]_vars

C8_Witness ==
    /\ selectedCategory \notin {"all", "Food"}
    /\ searchTerm = <<"A">>
    /\ Len(products) = MaxCatalog
    /\ Len(filteredProducts) = 1
    /\ \E i \in 1..Len(products) :
          /\ products[i].category = selectedCategory
          /\ ~NameHas(products[i].name, searchTerm)
    /\ \E i \in 1..Len(products) :
          /\ products[i].category # selectedCategory
          /\ NameHas(products[i].name, searchTerm)

\* C9 as stated: with the category "all" the filter returns all products,
\* whatever the search term.
C9_AllIgnoresTerm == selectedCategory = "all" => filteredProducts = products

\* C9 as amended: with the category "all" the filter returns the products of
\* every category whose name contains the search term case-insensitively, and
\* so all products when the term is empty.
C9_AllKeepsEveryCategory ==
    selectedCategory = "all" =>
        /\ \A i \in 1..Len(products) :
              NameHas(products[i].name, searchTerm)
                  <=> \E j \in 1..Len(filteredProducts) :
                          filteredProducts[j] = products[i]
        /\ searchTerm = <<>> => filteredProducts = products

C9_Witness ==
    /\ selectedCategory = "all"
    /\ searchTerm # <<>>
    /\ Len(filteredProducts) < Len(products)
    /\ \E i, j \in 1..Len(filteredProducts) :
          filteredProducts[i].category # filteredProducts[j].category

\* the first catalog position of a category
FirstSeen(c) ==
    CHOOSE i \in 1..Len(products) :
        /\ products[i].category = c
        /\ \A m \in 1..(i - 1) : products[m].category # c

\* C10: the category list has no duplicates, starts with "all" and goes on
\* with each distinct product category once, in first-seen catalog order.
C10_CategoriesDistinct ==
    /\ categories[1] = "all"
    /\ \A i, j \in 1..Len(categories) : i # j => categories[i] # categories[j]
    /\ \A i \in 1..Len(products) :
          \E j \in 2..Len(categories) : categories[j] = products[i].category
    /\ \A j \in 2..Len(categories) :
          \E i \in 1..Len(products) : products[i].category = categories[j]
    /\ \A a, b \in 2..Len(categories) :
          a < b => FirstSeen(categories[a]) < FirstSeen(categories[b])

====
